---- MODULE Spec2Model ----
(* The ledger core of accounts/: UserAccount rows with a balance, Transaction
   rows, and the requests that change them.  Amounts and balances are counted
   in whole units of the smallest money step (exact decimal arithmetic, so
   integers).  The database is one that honours select_for_update() (row
   locks, READ COMMITTED visibility, NUMERIC precision enforced): a write
   made inside transaction.atomic() is kept in the request until the block
   commits, and SELECT ... FOR UPDATE holds the account row until the block
   ends.  A request is one slot of req, at most NumRequests requests are
   issued, and resp is the last response the server sent; code that touches
   no shared state (field validators, Transaction.clean on an instance it
   already holds) runs in the same step as the database statement before
   it.  Next to the ledger: the creation of accounts and the account
   numbers it generates (digit strings), the permission check of the
   transaction endpoints, and the two read requests (the listing of an
   account and the admin report), whose time is counted in instants, two
   to a day: its first and its last.  The transaction-create and the
   transaction-detail endpoints are also modelled as a whole, one request
   at a time: the permission check, then the handler. *)
EXTENDS Integers, FiniteSets, Sequences

\* ---------------------------------------------------------------- bounds
NumRequests == 2
NumAccounts == 2
MaxAmount == 2
InitBalance == 3
BalanceCap == 5
NumUsers == 2
MaxDay == 2
MaxId == 11
MaxSeq == 2

Requests == 1..NumRequests
AccountIds == 1..NumAccounts
\* account_id values a request can carry: 0 is the missing/falsy id
AccountIdInputs == 0..NumAccounts
\* amounts a request can carry, all within the 15 digits of Transaction.amount
Amounts == (-1)..MaxAmount
\* balances a PATCH/PUT of an account can carry, within the 12 digits
BalanceInputs == {-1, 0, BalanceCap}
TxIds == 1..NumRequests

DEBIT == "debit"
CREDIT == "credit"
TransactionTypes == {DEBIT, CREDIT}
\* a field left out of a PATCH payload
Absent == -2
AbsentType == "absent"

\* User rows (auth_user ids)
UserIds == 1..NumUsers
\* user ids a request can carry: 0 is a missing one, NumUsers + 1 one that
\* names no row
UserIdInputs == 0..(NumUsers + 1)

\* InvestmentAccount.PERMISSION_CHOICES
VIEW_ONLY == "view_only"
FULL_ACCESS == "full_access"
POST_ONLY == "post_only"
\* the InvestmentAccount rows: one account type per permission level
permission_level == <<VIEW_ONLY, FULL_ACCESS, POST_ONLY>>
AccountTypeIds == DOMAIN permission_level
\* account_type values a request can carry: 0 names no row
AccountTypeInputs == {0} \cup AccountTypeIds

\* datetime.now().year
Year == 2024

VARIABLES
    accounts,        \* ids of the UserAccount rows
    balance,         \* UserAccount.balance, by account id
    transactions,    \* the Transaction rows
    nextTxId,        \* the AutoField of Transaction
    lock,            \* the request that holds the row lock of an account, or 0
    req,             \* the requests
    resp,            \* the last response sent
    user,            \* UserAccount.user, by account id
    account_type,    \* UserAccount.account_type, by account id
    account_number,  \* UserAccount.account_number, by account id
    nextAccountId,   \* the AutoField of UserAccount
    now,             \* the clock
    created_at,      \* Transaction.created_at, by transaction id
    gen,             \* a call of generate_account_number and what it returned
    body,            \* the body of the last response to a read request
    perm             \* the last permission check of a transaction endpoint

ledger == <<accounts, balance, transactions, nextTxId, lock>>
directory == <<user, account_type, account_number, nextAccountId>>
vars ==
    <<accounts, balance, transactions, nextTxId, lock, req, resp, user,
      account_type, account_number, nextAccountId, now, created_at, gen, body,
      perm>>

\* a request slot that has not been issued yet
Idle ==
    [pc |-> "idle", kind |-> "none", account |-> 0, amount |-> 0,
     ttype |-> "none", tx |-> 0, pending |-> 0, user |-> 0,
     account_type |-> 0, number |-> <<>>]

\* a request slot whose response was sent
Finished == [Idle EXCEPT !.pc = "done"]

\* no response sent yet
NoResponse == [kind |-> "none", outcome |-> "none"]

\* request r, of the kind of q, is answered with result: resp is the last
\* response the server sent
Respond(r, q, result) ==
    /\ req' = [req EXCEPT ![r] = Finished]
    /\ resp' = [kind |-> q.kind, outcome |-> result]

\* request r goes on as q
Continue(r, q) ==
    /\ req' = [req EXCEPT ![r] = q]
    /\ UNCHANGED resp

\* slots are issued in order
NextSlot(r) ==
    /\ req[r].pc = "idle"
    /\ \A r2 \in Requests : r2 < r => req[r2].pc # "idle"

\* ------------------------------------------------------ pure helpers
\* MinValueValidator(0) of CreateTransactionSerializer.Meta: fails below 0
MinValueValidatorFails(value) == value < 0

\* TransactionBaseSerializer.validate_amount
validate_amount_Fails(value) == value <= 0

\* the debit test of the serializers' validate() and of Transaction.clean()
InsufficientFundsRejectsEqual(ttype, bal, amount) ==
    ttype = DEBIT /\ bal <= amount
InsufficientFunds(ttype, bal, amount) ==
    ttype = DEBIT /\ bal < amount

\* first test of Transaction.clean()
CleanAmountAllowsZero(amount) == amount < 0
CleanAmountInvalid(amount) == amount <= 0

\* Transaction.clean() on an instance whose account was read with balance bal
CleanFails(ttype, bal, amount) ==
    CleanAmountInvalid(amount) \/ InsufficientFunds(ttype, bal, amount)

\* F('balance') - amount / F('balance') + amount, evaluated by the database
\* on the row as it is when the UPDATE runs
FBalanceCreditTwice(cur, ttype, amount) ==
    IF ttype = DEBIT THEN cur - amount
    ELSE IF ttype = CREDIT THEN cur + amount + amount
    ELSE cur
FBalanceDebitAdds(cur, ttype, amount) ==
    IF ttype = DEBIT THEN cur + amount
    ELSE IF ttype = CREDIT THEN cur + amount
    ELSE cur
FBalance(cur, ttype, amount) ==
    IF ttype = DEBIT THEN cur - amount
    ELSE IF ttype = CREDIT THEN cur + amount
    ELSE cur

\* DecimalField(max_digits=12, decimal_places=2): the largest magnitude the
\* balance column holds
FitsBalance(value) == value <= BalanceCap /\ value >= -BalanceCap

\* leaving transaction.atomic() on an exception: the balance UPDATE made in
\* the block is undone
RolledBackKeepsWrite(bal, a, written) == [bal EXCEPT ![a] = written]
RolledBack(bal, a, written) == bal

TxRow(id, a, amount, ttype) ==
    [id |-> id, user_account |-> a, amount |-> amount, transaction_type |-> ttype]

TxWithIdAndSiblings(id) ==
    {t \in transactions :
        \E x \in transactions : x.id = id /\ x.user_account = t.user_account}
TxWithId(id) == {t \in transactions : t.id = id}
StoredIds == {t.id : t \in transactions}

\* ------------------------------------------------ account numbers
RECURSIVE Digits(_)
\* str(n) of a natural number, as the sequence of its decimal digits
Digits(n) == IF n < 10 THEN <<n>> ELSE Append(Digits(n \div 10), n % 10)

\* f"{n:04}": at least four digits, zeros on the left (no digit is cut)
FormatNoPadding(n) == Digits(n)
Format04(n) ==
    LET d == Digits(n)
    IN IF Len(d) >= 4 THEN d ELSE [i \in 1..(4 - Len(d)) |-> 0] \o d

\* s[-4:]
LastFour(s) == IF Len(s) <= 4 THEN s ELSE SubSeq(s, Len(s) - 3, Len(s))

RECURSIVE ToInt(_)
\* int(s) of a digit string
ToInt(s) ==
    IF s = <<>> THEN 0 ELSE 10 * ToInt(SubSeq(s, 1, Len(s) - 1)) + s[Len(s)]

RECURSIVE StringLess(_, _)
\* s < t as the database compares two strings
StringLess(s, t) ==
    IF t = <<>> THEN FALSE
    ELSE IF s = <<>> THEN TRUE
    ELSE IF s[1] # t[1] THEN s[1] < t[1]
    ELSE StringLess(Tail(s), Tail(t))

\* existing_accounts.order_by('-account_number').first()
LastAccountNumber(existing) ==
    CHOOSE s \in existing : \A t \in existing : ~StringLess(s, t)

\* UserAccount.generate_account_number for an instance of user u and account
\* type t saved in year y, existing being the account numbers of the rows
\* of (u, t)
generate_account_number(u, t, y, existing) ==
    LET last_sequential ==
            IF existing # {} THEN ToInt(LastFour(LastAccountNumber(existing)))
            ELSE 0
    IN Digits(u) \o Digits(t) \o Digits(y) \o Format04(last_sequential + 1)

\* UserAccount.save: the account_number the instance is saved with, current
\* being the one it has (<<>> for the empty string) and generated what
\* generate_account_number would return
SavedNumberRegenerated(current, generated) == generated
SavedNumber(current, generated) ==
    IF current = <<>> THEN generated ELSE current

\* the account numbers of the rows of user u and account type t
NumbersOf(u, t) ==
    {account_number[a] : a \in {b \in accounts : user[b] = u /\ account_type[b] = t}}

\* ------------------------------------------------------------- Init
\* owner and account type of the accounts that exist at the start: no two of
\* them with the same (user, account_type)
InitUser(a) == (((a - 1) \div Len(permission_level)) % NumUsers) + 1
InitAccountType(a) == ((a - 1) % Len(permission_level)) + 1

\* nothing generated, nothing read yet
NoGen == [called |-> FALSE]
NoBody == [kind |-> "none"]
NoPerm == [checked |-> FALSE]

\* accounts that exist, each with the same balance and no transaction yet
Init ==
    /\ accounts = AccountIds
    /\ balance = [a \in AccountIds |-> InitBalance]
    /\ transactions = {}
    /\ nextTxId = 1
    /\ lock = [a \in AccountIds |-> 0]
    /\ req = [r \in Requests |-> Idle]
    /\ resp = NoResponse
    /\ user = [a \in AccountIds |-> InitUser(a)]
    /\ account_type = [a \in AccountIds |-> InitAccountType(a)]
    /\ account_number = [a \in AccountIds |->
            generate_account_number(InitUser(a), InitAccountType(a), Year, {})]
    /\ nextAccountId = NumAccounts + 1
    /\ now = 1
    /\ created_at = [id \in TxIds |-> 0]
    /\ gen = NoGen
    /\ body = NoBody
    /\ perm = NoPerm

\* ------------------------------------------- transaction create (POST)
\* the error CreateTransactionView.post ends with before the atomic block of
\* Transaction.save takes the lock, "none" when there is none: the field
\* validators, CreateTransactionSerializer.validate (which reads the
\* account), then serializer.save() -> Transaction.save() -> self.clean() on
\* the account instance that validate() read
CreateError(account_id, amount, ttype) ==
    IF MinValueValidatorFails(amount) THEN "invalid_amount"
    ELSE IF account_id = 0 THEN "account_required"
    ELSE IF account_id \notin accounts THEN "not_found"
    ELSE IF InsufficientFunds(ttype, balance[account_id], amount)
        THEN "insufficient_funds"
    ELSE IF CleanFails(ttype, balance[account_id], amount) THEN "server_error"
    ELSE "none"

CreateBegin(r, account_id, amount, ttype) ==
    /\ NextSlot(r)
    /\ LET q == [Idle EXCEPT !.kind = "create", !.account = account_id,
                             !.amount = amount, !.ttype = ttype]
           error == CreateError(account_id, amount, ttype)
       IN IF error # "none" THEN Respond(r, q, error)
          ELSE Continue(r, [q EXCEPT !.pc = "clean"])
    /\ UNCHANGED <<accounts, balance, transactions, nextTxId, lock>>

\* ------------------------------------------------ Transaction.save
\* SELECT ... FOR UPDATE of the row of account a can proceed: no other
\* request holds that row (the rows of other accounts do not matter)
NoRowLocked(a) == \A b \in AccountIds : lock[b] = 0
RowLockFree(a) == lock[a] = 0

\* the row locks once the transaction.atomic() block that locked the row of
\* account a has ended, by commit or by rollback: the database transaction
\* is over and its row lock with it
StillLocked(a) == lock
Released(a) == [lock EXCEPT ![a] = 0]

\* the row locks once request r holds the row select_for_update().get(id=a)
\* selects: that one row
SelectForUpdateAll(r, a) == [b \in AccountIds |-> r]
SelectForUpdate(r, a) == [lock EXCEPT ![a] = r]

\* UserAccount.objects.select_for_update().get(id=...): waits for the row
\* lock; DoesNotExist when the row is gone
Lock(r) ==
    /\ req[r].pc = "clean"
    /\ LET q == req[r]
           a == q.account
       IN IF a \in accounts
          THEN /\ RowLockFree(a)
               /\ lock' = SelectForUpdate(r, a)
               /\ Continue(r, [q EXCEPT !.pc = "locked"])
          ELSE /\ Respond(r, q, "server_error")
               /\ UNCHANGED lock
    /\ UNCHANGED <<accounts, balance, transactions, nextTxId>>

\* user_account.balance = F('balance') -/+ amount;
\* user_account.save(update_fields=['balance']).  The column is
\* NUMERIC(12,2): the database refuses a value that does not fit, the
\* exception leaves the atomic block and the block is rolled back.
WriteBalance(r) ==
    /\ req[r].pc = "locked"
    /\ LET q == req[r]
           a == q.account
           new == FBalance(balance[a], q.ttype, q.amount)
       IN IF FitsBalance(new)
          THEN /\ Continue(r, [q EXCEPT !.pc = "written", !.pending = new])
               /\ UNCHANGED <<balance, lock>>
          ELSE /\ Respond(r, q, "server_error")
               /\ lock' = Released(a)
               /\ UNCHANGED balance
    /\ UNCHANGED <<accounts, transactions, nextTxId>>

\* super().save() and the end of the atomic block: the row is inserted (or,
\* for an instance that has an id, updated, and inserted again when the
\* UPDATE matches no row), then both writes commit and the lock is released
InsertCommit(r) ==
    /\ req[r].pc = "written"
    /\ LET q == req[r]
           a == q.account
           id == IF q.kind = "create" THEN nextTxId ELSE q.tx
       IN /\ balance' = [balance EXCEPT ![a] = q.pending]
          /\ transactions' = (transactions \ TxWithId(id))
                                \cup {TxRow(id, a, q.amount, q.ttype)}
          /\ nextTxId' = IF q.kind = "create" THEN nextTxId + 1 ELSE nextTxId
          /\ created_at' = IF q.kind = "create"
                                THEN [created_at EXCEPT ![id] = now]
                                ELSE created_at
          /\ lock' = Released(a)
          /\ Respond(r, q, IF q.kind = "create" THEN "created" ELSE "updated")
    /\ UNCHANGED accounts

\* an exception, a lost connection or a killed worker inside the atomic
\* block, after the row lock was taken: the block is rolled back
Fail(r) ==
    /\ req[r].pc \in {"locked", "written"}
    /\ LET q == req[r]
           a == q.account
       IN /\ balance' = RolledBack(balance, a,
                            IF q.pc = "written" THEN q.pending ELSE balance[a])
          /\ lock' = Released(a)
          /\ Respond(r, q, "aborted")
    /\ UNCHANGED <<accounts, transactions, nextTxId>>

\* ------------------------------------- transaction update (PUT / PATCH)
\* the instance TransactionDetailView.put / patch saves: the stored row old
\* with the payload's fields set by ModelSerializer.update (put: every field
\* present, patch: fields may be Absent)
UpdatedInstance(old, amount, ttype, account_id) ==
    [Idle EXCEPT
        !.kind = "update", !.tx = old.id,
        !.account = IF account_id = Absent THEN old.user_account ELSE account_id,
        !.amount = IF amount = Absent THEN old.amount ELSE amount,
        !.ttype = IF ttype = AbsentType THEN old.transaction_type ELSE ttype]

\* the error put / patch ends with before Transaction.save reads the
\* database, "none" when there is none: get_object, the field validators of
\* TransactionSerializer, TransactionBaseSerializer.validate, then
\* instance.save() -> self.clean() when the payload named the account
UpdateError(id, amount, ttype, account_id) ==
    IF id \notin StoredIds THEN "not_found"
    ELSE LET old == CHOOSE t \in transactions : t.id = id
             set == UpdatedInstance(old, amount, ttype, account_id)
         IN IF amount # Absent /\ validate_amount_Fails(amount)
                THEN "invalid_amount"
            ELSE IF account_id # Absent /\ account_id \notin accounts
                THEN "invalid_account"
            ELSE IF ttype = DEBIT /\ (account_id = Absent \/ amount = Absent)
                THEN "server_error"
            ELSE IF ttype = DEBIT
                    /\ InsufficientFunds(ttype, balance[account_id], amount)
                THEN "insufficient_funds"
            ELSE IF CleanAmountInvalid(set.amount) THEN "server_error"
            ELSE IF account_id # Absent
                    /\ CleanFails(set.ttype, balance[account_id], set.amount)
                THEN "server_error"
            ELSE "none"

\* clean() of a debit whose payload named no user_account has to load the
\* account of the row: that read is the step LazyClean
UpdateBegin(r, id, amount, ttype, account_id) ==
    /\ NextSlot(r)
    /\ LET error == UpdateError(id, amount, ttype, account_id)
       IN IF error # "none"
          THEN Respond(r, [Idle EXCEPT !.kind = "update"], error)
          ELSE LET old == CHOOSE t \in transactions : t.id = id
                   set == UpdatedInstance(old, amount, ttype, account_id)
               IN Continue(r, [set EXCEPT !.pc =
                        IF account_id = Absent /\ set.ttype = DEBIT THEN "lazy"
                        ELSE "clean"])
    /\ UNCHANGED <<accounts, balance, transactions, nextTxId, lock>>

\* the debit test of Transaction.clean() on the account it has to load
LazyClean(r) ==
    /\ req[r].pc = "lazy"
    /\ LET q == req[r]
           a == q.account
       IN IF a \notin accounts \/ CleanFails(q.ttype, balance[a], q.amount)
          THEN Respond(r, q, "server_error")
          ELSE Continue(r, [q EXCEPT !.pc = "clean"])
    /\ UNCHANGED <<accounts, balance, transactions, nextTxId, lock>>

\* TransactionDetailView.delete: get_object, then instance.delete()
TransactionDelete(r, id) ==
    /\ NextSlot(r)
    /\ LET q == [Idle EXCEPT !.kind = "delete", !.tx = id]
       IN IF id \notin StoredIds
          THEN /\ Respond(r, q, "not_found")
               /\ UNCHANGED transactions
          ELSE /\ Respond(r, q, "deleted")
               /\ transactions' = transactions \ TxWithId(id)
    /\ UNCHANGED <<accounts, balance, nextTxId, lock>>

\* ------------------------------------------- account update and delete
\* UserAccountDetailView PUT / PATCH up to perform_update: get_object loads
\* the row, UserAccountSerializer sets the payload's balance on the instance
\* when the payload has one
AccountUpdateBegin(r, account_id, bal) ==
    /\ NextSlot(r)
    /\ LET q == [Idle EXCEPT !.kind = "account_update", !.account = account_id]
       IN IF account_id \notin accounts THEN Respond(r, q, "not_found")
          ELSE Continue(r, [q EXCEPT !.pc = "loaded",
                    !.pending = IF bal = Absent THEN balance[account_id] ELSE bal])
    /\ UNCHANGED <<accounts, balance, transactions, nextTxId, lock>>

\* perform_update: serializer.save() -> UserAccount.save() writes every
\* field of the instance (no update_fields); the UPDATE waits for a row lock,
\* and when it matches no row the instance is inserted under its id
AccountSave(r) ==
    /\ req[r].pc = "loaded"
    /\ LET q == req[r]
           a == q.account
       IN /\ RowLockFree(a)
          /\ balance' = [balance EXCEPT ![a] = q.pending]
          /\ accounts' = accounts \cup {a}
          /\ account_number' = [account_number EXCEPT ![a] =
                SavedNumber(account_number[a],
                    generate_account_number(user[a], account_type[a], Year,
                        NumbersOf(user[a], account_type[a])))]
          /\ Respond(r, q, "updated")
    /\ UNCHANGED <<transactions, nextTxId, lock>>

\* on_delete=models.CASCADE of Transaction.user_account: the rows left when
\* account a is deleted
CascadeKeepsRows(rows, a) == rows
Cascade(rows, a) == {t \in rows : t.user_account # a}

\* perform_destroy: get_object, then instance.delete() removes the account
\* and, through on_delete=CASCADE, its transactions; the DELETE waits for a
\* row lock
AccountDelete(r, a) ==
    /\ NextSlot(r)
    /\ LET q == [Idle EXCEPT !.kind = "account_delete", !.account = a]
       IN IF a \notin accounts
          THEN /\ Respond(r, q, "not_found")
               /\ UNCHANGED <<accounts, balance, transactions>>
          ELSE /\ RowLockFree(a)
               /\ Respond(r, q, "deleted")
               /\ accounts' = accounts \ {a}
               /\ balance' = [balance EXCEPT ![a] = 0]
               /\ transactions' = Cascade(transactions, a)
    /\ UNCHANGED <<nextTxId, lock>>

\* ---------------------------------------------- account create (POST)
\* a database with no account yet, and no request made
EmptyTables ==
    /\ accounts = {}
    /\ balance = [a \in AccountIds |-> 0]
    /\ transactions = {}
    /\ nextTxId = 1
    /\ lock = [a \in AccountIds |-> 0]
    /\ req = [r \in Requests |-> Idle]
    /\ resp = NoResponse
    /\ user = [a \in AccountIds |-> 0]
    /\ account_type = [a \in AccountIds |-> 0]
    /\ account_number = [a \in AccountIds |-> <<>>]
    /\ nextAccountId = 1
    /\ now = 1
    /\ created_at = [id \in TxIds |-> 0]
    /\ body = NoBody
    /\ perm = NoPerm

InitEmpty == EmptyTables /\ gen = NoGen

\* the error CreateUserAccountSerializer.is_valid ends with, "none" when there
\* is none: the two PrimaryKeyRelatedFields; the UniqueTogetherValidator that
\* the installed rest_framework derives from Meta.constraints, when it is
\* one that does (derives); then validate(), which looks for an account of
\* the caller, not of the user of the payload
AccountCreateError(caller, u, t, derives) ==
    IF u \notin UserIds \/ t \notin AccountTypeIds THEN "invalid"
    ELSE IF derives /\ NumbersOf(u, t) # {} THEN "unique_together"
    ELSE IF NumbersOf(caller, t) # {} THEN "duplicate"
    ELSE "none"

\* UserAccountCreateView.create up to perform_create
AccountCreateBegin(r, caller, u, t, derives) ==
    /\ NextSlot(r)
    /\ LET q == [Idle EXCEPT !.kind = "account_create", !.user = u,
                             !.account_type = t]
           error == AccountCreateError(caller, u, t, derives)
       IN IF error # "none" THEN Respond(r, q, error)
          ELSE Continue(r, [q EXCEPT !.pc = "validated"])
    /\ UNCHANGED <<ledger, directory>>

\* UserAccount.save: the instance has no account_number, so one is generated
\* from the rows of its (user, account_type) as they are now
AccountGenerate(r) ==
    /\ req[r].pc = "validated"
    /\ LET q == req[r]
       IN Continue(r, [q EXCEPT !.pc = "generated",
                !.number = SavedNumber(q.number,
                            generate_account_number(q.user, q.account_type, Year,
                                NumbersOf(q.user, q.account_type)))])
    /\ UNCHANGED <<ledger, directory>>

\* super().save() and the end of perform_create's atomic block: the INSERT,
\* refused by unique_user_account_type or by the unique account_number
AccountInsert(r) ==
    /\ req[r].pc = "generated"
    /\ LET q == req[r]
           id == nextAccountId
       IN IF \/ NumbersOf(q.user, q.account_type) # {}
             \/ \E a \in accounts : account_number[a] = q.number
          THEN /\ Respond(r, q, "integrity_error")
               /\ UNCHANGED <<ledger, directory>>
          ELSE /\ id \in AccountIds
               /\ accounts' = accounts \cup {id}
               /\ balance' = [balance EXCEPT ![id] = 0]
               /\ user' = [user EXCEPT ![id] = q.user]
               /\ account_type' = [account_type EXCEPT ![id] = q.account_type]
               /\ account_number' = [account_number EXCEPT ![id] = q.number]
               /\ nextAccountId' = id + 1
               /\ Respond(r, q, "created")
               /\ UNCHANGED <<transactions, nextTxId, lock>>

\* ------------------------- permissions of the transaction endpoints
\* request.method
Methods == {"GET", "HEAD", "OPTIONS", "POST", "PUT", "PATCH", "DELETE"}

\* request.query_params.get('account_id') or request.data.get('account_id'):
\* 0 is a missing or empty value
ResolvedAccountId(query, data) == IF query # 0 THEN query ELSE data

\* BaseAccountPermission.get_user_account: the account, 0 for None
get_user_accountOfAnyUser(caller, account_id) ==
    IF account_id = 0 THEN 0
    ELSE IF account_id \in accounts THEN account_id
    ELSE 0
get_user_account(caller, account_id) ==
    IF account_id = 0 THEN 0
    ELSE IF account_id \in accounts /\ user[account_id] = caller THEN account_id
    ELSE 0

\* DynamicAccountPermission.has_permission
has_permissionSafeMethods(caller, method, account_id) ==
    LET user_account == get_user_account(caller, account_id)
        level == permission_level[account_type[user_account]]
    IN IF user_account = 0 THEN FALSE
       ELSE IF level = VIEW_ONLY THEN method \in {"GET", "HEAD", "OPTIONS"}
       ELSE IF level = FULL_ACCESS THEN TRUE
       ELSE IF level = POST_ONLY THEN method = "POST"
       ELSE FALSE
has_permission(caller, method, account_id) ==
    LET user_account == get_user_account(caller, account_id)
        level == permission_level[account_type[user_account]]
    IN IF user_account = 0 THEN FALSE
       ELSE IF level = VIEW_ONLY THEN method \in {"GET"}
       ELSE IF level = FULL_ACCESS THEN TRUE
       ELSE IF level = POST_ONLY THEN method = "POST"
       ELSE FALSE

\* accounts of any owners and account types, no two of the same
\* (user, account_type)
InitPermission ==
    /\ accounts = AccountIds
    /\ balance = [a \in AccountIds |-> InitBalance]
    /\ transactions = {}
    /\ nextTxId = 1
    /\ lock = [a \in AccountIds |-> 0]
    /\ req = [r \in Requests |-> Idle]
    /\ resp = NoResponse
    /\ user \in [AccountIds -> UserIds]
    /\ account_type \in [AccountIds -> AccountTypeIds]
    /\ \A a, b \in AccountIds :
            (user[a] = user[b] /\ account_type[a] = account_type[b]) => a = b
    /\ account_number = [a \in AccountIds |->
            generate_account_number(user[a], account_type[a], Year, {})]
    /\ nextAccountId = NumAccounts + 1
    /\ now = 1
    /\ created_at = [id \in TxIds |-> 0]
    /\ gen = NoGen
    /\ body = NoBody
    /\ perm = NoPerm

\* what a response of kind k and status outcome answers
Answer(k, outcome) == resp' = [kind |-> k, outcome |-> outcome]

\* APIView.initial -> check_permissions of a transaction endpoint for an
\* authenticated caller: a denial ends the request with 403 before the
\* handler runs.  The check changes nothing stored: a behaviour makes one.
TransactionRequest(caller, method, query, data) ==
    /\ perm = NoPerm
    /\ LET account_id == ResolvedAccountId(query, data)
           allowed == has_permission(caller, method, account_id)
       IN /\ perm' = [checked |-> TRUE, caller |-> caller, method |-> method,
                      account_id |-> account_id, allowed |-> allowed]
          /\ Answer("transaction_request",
                    IF allowed THEN "permitted" ELSE "forbidden")
    /\ UNCHANGED <<ledger, directory, req, now, created_at, gen, body>>

\* ------------------------------------------------------ read requests
\* dates a request can name, and two values for a parameter that is missing
\* and for one that parse_date does not accept
Days == 1..MaxDay
MissingDate == 0
MalformedDate == -1
DateInputs == {MissingDate, MalformedDate} \cup Days

\* make_aware(datetime.combine(d, time.min)) and (d, time.max): the first
\* and the last instant of day d
DayStart(d) == 2 * d - 1
DayEnd(d) == 2 * d
Instants == DayStart(1)..DayEnd(MaxDay)

\* a user_id parameter that is not a number
NonNumericId == -1

\* a queryset of the transactions ids, evaluated with
\* order_by('-created_at'): any order the database can return, rows with
\* equal created_at in any order
Orderings(ids) ==
    {s \in [1..Cardinality(ids) -> ids] :
        /\ \A i, j \in DOMAIN s : i # j => s[i] # s[j]
        /\ \A i, j \in DOMAIN s : i < j => created_at[s[i]] >= created_at[s[j]]}

RECURSIVE SumAmountSigned(_)
SumAmountSigned(rows) ==
    IF rows = {} THEN 0
    ELSE LET t == CHOOSE x \in rows : TRUE
         IN (IF t.transaction_type = DEBIT THEN 0 - t.amount ELSE t.amount)
                + SumAmountSigned(rows \ {t})
RECURSIVE SumAmount(_)
\* aggregate(Sum('amount'))['amount__sum'] or 0
SumAmount(rows) ==
    IF rows = {} THEN 0
    ELSE LET t == CHOOSE x \in rows : TRUE
         IN t.amount + SumAmount(rows \ {t})

\* created_at__range=[start, end] of a report from day start_date to day
\* end_date: BETWEEN, both ends included
InRange(at, start_date, end_date) ==
    DayStart(start_date) <= at /\ at <= DayEnd(end_date)

\* the rows a database holds when the reads are made: up to NumRequests
\* transactions, created in the order of their ids, on any accounts of any
\* owners (user ids are interchangeable: the owners are numbered in the
\* order of their first account); transaction id carries the amount
\* AmountOfId(id) and is a credit when id is odd, a debit when it is even
AmountOfId(id) == ((id - 1) % MaxAmount) + 1
TypeOfId(id) == IF id % 2 = 1 THEN CREDIT ELSE DEBIT

InitRead ==
    /\ accounts = AccountIds
    /\ balance = [a \in AccountIds |-> InitBalance]
    /\ lock = [a \in AccountIds |-> 0]
    /\ req = [r \in Requests |-> Idle]
    /\ resp = NoResponse
    /\ user \in [AccountIds -> UserIds]
    /\ \A a \in AccountIds :
            \/ user[a] = 1
            \/ \E b \in 1..(a - 1) : user[b] \in {user[a], user[a] - 1}
    /\ account_type = [a \in AccountIds |-> InitAccountType(a)]
    /\ account_number = [a \in AccountIds |->
            generate_account_number(user[a], account_type[a], Year, {})]
    /\ nextAccountId = NumAccounts + 1
    /\ now = 1
    /\ \E n \in 0..NumRequests :
        /\ nextTxId = n + 1
        /\ \E of \in [TxIds -> AccountIds] :
            /\ \A id \in TxIds : id > n => of[id] = 1
            /\ transactions =
                    {TxRow(id, of[id], AmountOfId(id), TypeOfId(id)) : id \in 1..n}
        /\ created_at \in [TxIds -> {0} \cup Instants]
        /\ \A id \in TxIds : (created_at[id] = 0) <=> (id > n)
        /\ \A id \in 1..n : id > 1 => created_at[id - 1] <= created_at[id]
    /\ gen = NoGen
    /\ body = NoBody
    /\ perm = NoPerm

\* TransactionListView: the permission check, then get(); body keeps the
\* request next to the rows returned.  A read changes nothing stored: a
\* behaviour makes one read, or several listings one after the other.
TransactionList(caller, account_id) ==
    /\ body = NoBody \/ body.kind = "list"
    /\ LET empty == [kind |-> "list", caller |-> caller,
                     account_id |-> account_id, rows |-> <<>>]
       IN IF ~has_permission(caller, "GET", ResolvedAccountId(account_id, 0))
            THEN Answer("list", "forbidden") /\ body' = empty
          ELSE IF account_id = 0
            THEN Answer("list", "account_required") /\ body' = empty
          ELSE IF ~(account_id \in accounts /\ user[account_id] = caller)
            THEN Answer("list", "forbidden") /\ body' = empty
          ELSE /\ Answer("list", "ok")
               /\ \E rows \in Orderings({t.id : t \in
                        {x \in transactions : x.user_account = account_id}}) :
                    body' = [empty EXCEPT !.rows = rows]
    /\ UNCHANGED <<ledger, directory, req, now, created_at, gen, perm>>

\* the error AdminUserTransactionsView.get ends with, "none" when there is
\* none, in the order of its tests
ReportErrorDatesFirst(user_id, start_date, end_date) ==
    IF user_id = 0 THEN "user_required"
    ELSE IF start_date = MissingDate \/ end_date = MissingDate THEN "dates_required"
    ELSE IF start_date = MalformedDate \/ end_date = MalformedDate
        THEN "bad_date_format"
    ELSE IF user_id = NonNumericId THEN "server_error"
    ELSE IF user_id \notin UserIds THEN "user_not_found"
    ELSE IF DayStart(start_date) > DayEnd(end_date) THEN "start_after_end"
    ELSE "none"
ReportError(user_id, start_date, end_date) ==
    IF user_id = 0 THEN "user_required"
    ELSE IF start_date = MissingDate \/ end_date = MissingDate THEN "dates_required"
    ELSE IF user_id = NonNumericId THEN "server_error"
    ELSE IF user_id \notin UserIds THEN "user_not_found"
    ELSE IF start_date = MalformedDate \/ end_date = MalformedDate
        THEN "bad_date_format"
    ELSE IF DayStart(start_date) > DayEnd(end_date) THEN "start_after_end"
    ELSE "none"

\* AdminUserTransactionsView.get for a caller who is staff
AdminUserTransactions(user_id, start_date, end_date) ==
    /\ body = NoBody
    /\ LET error == ReportError(user_id, start_date, end_date)
           matched == {t \in transactions :
                        /\ user[t.user_account] = user_id
                        /\ InRange(created_at[t.id], start_date, end_date)}
       IN IF error # "none"
          THEN /\ Answer("report", error)
               /\ body' = [kind |-> "report", user_id |-> user_id,
                            start_date |-> start_date, end_date |-> end_date,
                            rows |-> <<>>, total_balance |-> 0]
          ELSE /\ Answer("report", "ok")
               /\ \E rows \in Orderings({t.id : t \in matched}) :
                    body' = [kind |-> "report", user_id |-> user_id,
                             start_date |-> start_date, end_date |-> end_date,
                             rows |-> rows, total_balance |-> SumAmount(matched)]
    /\ UNCHANGED <<ledger, directory, req, now, created_at, gen, perm>>

\* ------------------------------------ the transaction-detail endpoint
\* the rows a database holds when a transaction-detail request arrives: up
\* to NumRequests transactions on any accounts of any owners (numbered in
\* the order of their first account), account a of type InitAccountType(a)
InitDetail ==
    /\ accounts = AccountIds
    /\ balance = [a \in AccountIds |-> InitBalance]
    /\ lock = [a \in AccountIds |-> 0]
    /\ req = [r \in Requests |-> Idle]
    /\ resp = NoResponse
    /\ user \in [AccountIds -> UserIds]
    /\ \A a \in AccountIds :
            \/ user[a] = 1
            \/ \E b \in 1..(a - 1) : user[b] \in {user[a], user[a] - 1}
    /\ account_type = [a \in AccountIds |-> InitAccountType(a)]
    /\ account_number = [a \in AccountIds |->
            generate_account_number(user[a], account_type[a], Year, {})]
    /\ nextAccountId = NumAccounts + 1
    /\ now = 1
    /\ \E n \in 0..NumRequests :
        /\ nextTxId = n + 1
        /\ \E of \in [TxIds -> AccountIds] :
            /\ \A id \in TxIds : id > n => of[id] = 1
            /\ transactions =
                    {TxRow(id, of[id], AmountOfId(id), TypeOfId(id)) : id \in 1..n}
        /\ created_at = [id \in TxIds |-> IF id <= n THEN 1 ELSE 0]
    /\ gen = NoGen
    /\ body = NoBody
    /\ perm = NoPerm

\* the methods a request to the endpoint is made with
DetailMethods == {"GET", "POST", "PUT", "PATCH", "DELETE"}

\* what check_permissions leaves of a request to view by caller with
\* method, the account_id of its query string and the account_id of its body
Checked(view, caller, method, query, data) ==
    [checked |-> TRUE, view |-> view, caller |-> caller, method |-> method,
     query |-> query, data |-> data,
     account_id |-> ResolvedAccountId(query, data),
     allowed |-> has_permission(caller, method, ResolvedAccountId(query, data))]

\* APIView.initial of CreateTransactionView ("create") and of
\* TransactionDetailView ("detail") for an authenticated caller:
\* DynamicAccountPermission is checked on the account_id of the query string
\* or, without one, of the body; a denial ends the request with 403 and the
\* handler does not run.  A behaviour makes one such request.
CheckPermissions(r, view, caller, method, query, data) ==
    /\ perm = NoPerm
    /\ NextSlot(r)
    /\ perm' = Checked(view, caller, method, query, data)
    /\ IF perm'.allowed THEN UNCHANGED <<req, resp>>
       ELSE Respond(r, [Idle EXCEPT !.kind = view], "forbidden")
    /\ UNCHANGED <<ledger, directory, now, created_at, gen, body>>

\* the request to view passed its permission check and its handler has not
\* run yet
Permitted(view) ==
    /\ perm # NoPerm
    /\ perm.view = view
    /\ perm.allowed
    /\ \A r \in Requests : req[r].pc = "idle"

\* TransactionDetailView.get
Retrieve(r, id) ==
    /\ LET q == [Idle EXCEPT !.kind = "retrieve", !.tx = id]
       IN IF id \notin StoredIds
          THEN Respond(r, q, "not_found") /\ UNCHANGED body
          ELSE /\ Respond(r, q, "ok")
               /\ body' = [kind |-> "retrieve",
                           row |-> CHOOSE t \in transactions : t.id = id]
    /\ UNCHANGED <<accounts, balance, transactions, nextTxId, lock>>

\* the handler of a permitted request to transactions/<id>/: it runs on
\* get_object(), the transaction of that id, whatever its account.  amount,
\* ttype and user_account are the fields of the body TransactionSerializer
\* reads (PUT needs the three of them); the view has no post().
TransactionDetail(r, id, amount, ttype, user_account) ==
    /\ Permitted("detail")
    /\ NextSlot(r)
    /\ IF perm.method = "GET" THEN Retrieve(r, id)
       ELSE IF perm.method = "DELETE"
       THEN TransactionDelete(r, id) /\ UNCHANGED body
       ELSE IF perm.method = "PUT" /\ id \in StoredIds
                /\ (amount = Absent \/ ttype = AbsentType \/ user_account = Absent)
       THEN /\ Respond(r, [Idle EXCEPT !.kind = "update"], "field_required")
            /\ UNCHANGED <<accounts, balance, transactions, nextTxId, lock, body>>
       ELSE IF perm.method \in {"PUT", "PATCH"}
       THEN UpdateBegin(r, id, amount, ttype, user_account) /\ UNCHANGED body
       ELSE /\ Respond(r, [Idle EXCEPT !.kind = "detail"], "method_not_allowed")
            /\ UNCHANGED <<accounts, balance, transactions, nextTxId, lock, body>>
    /\ UNCHANGED <<directory, now, created_at, gen, perm>>

\* CreateTransactionView.post of a permitted request: validate_account_id
\* reads the account_id the permission check read, which is there; the
\* serializer then reads the account_id of the body, and the transaction is
\* created on that account
CreateTransaction(r, amount, ttype) ==
    /\ Permitted("create")
    /\ NextSlot(r)
    /\ CreateBegin(r, perm.data, amount, ttype)
    /\ UNCHANGED <<directory, now, created_at, gen, body, perm>>

\* ------------------------------------- generate_account_number alone
\* ids of User and InvestmentAccount rows as the database hands them out
Ids == 1..MaxId

\* the account numbers of rows of (u, t) with the sequence numbers 1..last
ExistingNumbers(u, t, last) ==
    {Digits(u) \o Digits(t) \o Digits(Year) \o Format04(k) : k \in 1..last}

\* two instances about to be saved: one of (user, account_type) whose pair
\* has rows with the sequence numbers up to last, one of another pair that
\* has no row
InitNumber ==
    /\ EmptyTables
    /\ gen \in [called : {FALSE}, user : Ids, account_type : Ids,
                 last : 0..MaxSeq, other_user : Ids, other_account_type : Ids,
                 number : {<<>>}, other_number : {<<>>}]

\* both instances generate their number
Generate ==
    /\ gen # NoGen
    /\ ~gen.called
    /\ gen' = [gen EXCEPT
            !.called = TRUE,
            !.number = generate_account_number(gen.user, gen.account_type, Year,
                            ExistingNumbers(gen.user, gen.account_type, gen.last)),
            !.other_number = generate_account_number(gen.other_user,
                            gen.other_account_type, Year, {})]
    /\ UNCHANGED <<ledger, directory, req, resp, now, created_at, body, perm>>

\* --------------------------------------------------- specifications
AmountInputs == Amounts \cup {Absent}
TypeInputs == TransactionTypes \cup {AbsentType}

\* what no operation on accounts' balances and transactions touches
LedgerFrame == UNCHANGED <<directory, now, gen, body, perm>>

CreateStep ==
    /\ \E r \in Requests :
        /\ NextSlot(r)
        /\ \E a \in AccountIdInputs, m \in Amounts, ty \in TransactionTypes :
                CreateBegin(r, a, m, ty)
    /\ UNCHANGED created_at
    /\ LedgerFrame
UpdateStep ==
    /\ \E r \in Requests :
        /\ NextSlot(r)
        /\ \E id \in TxIds, m \in AmountInputs, ty \in TypeInputs,
              a \in AccountIdInputs \cup {Absent} :
                UpdateBegin(r, id, m, ty, a)
    /\ UNCHANGED created_at
    /\ LedgerFrame
AccountUpdateStep ==
    /\ \E r \in Requests :
        /\ NextSlot(r)
        /\ \E a \in AccountIdInputs, b \in BalanceInputs \cup {Absent} :
                AccountUpdateBegin(r, a, b)
    /\ UNCHANGED created_at
    /\ LedgerFrame
LazyCleanStep ==
    (\E r \in Requests : LazyClean(r)) /\ UNCHANGED created_at /\ LedgerFrame
LockStep ==
    (\E r \in Requests : Lock(r)) /\ UNCHANGED created_at /\ LedgerFrame
WriteBalanceStep ==
    (\E r \in Requests : WriteBalance(r)) /\ UNCHANGED created_at /\ LedgerFrame
InsertCommitStep ==
    (\E r \in Requests : InsertCommit(r)) /\ LedgerFrame
FailStep ==
    (\E r \in Requests : Fail(r)) /\ UNCHANGED created_at /\ LedgerFrame
AccountSaveStep ==
    /\ \E r \in Requests : AccountSave(r)
    /\ UNCHANGED <<user, account_type, nextAccountId, now, created_at, gen,
                   body, perm>>
TransactionDeleteStep ==
    /\ \E r \in Requests : NextSlot(r) /\ \E id \in TxIds : TransactionDelete(r, id)
    /\ UNCHANGED created_at
    /\ LedgerFrame
AccountDeleteStep ==
    /\ \E r \in Requests : NextSlot(r) /\ \E a \in AccountIds : AccountDelete(r, a)
    /\ UNCHANGED created_at
    /\ LedgerFrame

AccountCreateStep ==
    /\ \E r \in Requests :
        /\ NextSlot(r)
        /\ \E caller \in UserIds, u \in UserIdInputs, t \in AccountTypeInputs,
              derives \in BOOLEAN :
                AccountCreateBegin(r, caller, u, t, derives)
    /\ UNCHANGED <<now, created_at, gen, body, perm>>
AccountGenerateStep ==
    (\E r \in Requests : AccountGenerate(r)) /\ UNCHANGED <<now, created_at, gen, body, perm>>
AccountInsertStep ==
    (\E r \in Requests : AccountInsert(r)) /\ UNCHANGED <<now, created_at, gen, body, perm>>

\* every operation, any interleaving
Next ==
    \/ CreateStep
    \/ UpdateStep
    \/ AccountUpdateStep
    \/ LazyCleanStep
    \/ LockStep
    \/ WriteBalanceStep
    \/ InsertCommitStep
    \/ FailStep
    \/ AccountSaveStep
    \/ TransactionDeleteStep
    \/ AccountDeleteStep

Spec == Init /\ [][Next]_vars

\* transaction creates only, any interleaving
NextCreate ==
    \/ CreateStep
    \/ LockStep
    \/ WriteBalanceStep
    \/ InsertCommitStep
    \/ FailStep

SpecCreate == Init /\ [][NextCreate]_vars

\* transaction creates only, every request served: a request that can take
\* its lock, write the balance or commit does so in the end (the database
\* grants a free row lock to a waiter, a worker runs its handler on); a
\* failure may or may not happen
FairCreate ==
    \A r \in Requests :
        /\ WF_vars(Lock(r) /\ UNCHANGED created_at /\ LedgerFrame)
        /\ WF_vars(WriteBalance(r) /\ UNCHANGED created_at /\ LedgerFrame)
        /\ WF_vars(InsertCommit(r) /\ LedgerFrame)

SpecCreateFair == Init /\ [][NextCreate]_vars /\ FairCreate

\* every operation, one request at a time
NoneInFlight == \A r \in Requests : req[r].pc \in {"idle", "done"}

NextSeq ==
    \/ NoneInFlight /\ CreateStep
    \/ NoneInFlight /\ UpdateStep
    \/ NoneInFlight /\ AccountUpdateStep
    \/ LazyCleanStep
    \/ LockStep
    \/ WriteBalanceStep
    \/ InsertCommitStep
    \/ FailStep
    \/ AccountSaveStep
    \/ NoneInFlight /\ TransactionDeleteStep
    \/ NoneInFlight /\ AccountDeleteStep

SpecSeq == Init /\ [][NextSeq]_vars

\* account creates on an empty database, any interleaving
NextDirectory ==
    \/ AccountCreateStep
    \/ AccountGenerateStep
    \/ AccountInsertStep

SpecDirectory == InitEmpty /\ [][NextDirectory]_vars

\* accounts created on an empty database, then updated and used by
\* transaction creates, any interleaving
NextAccount ==
    \/ AccountCreateStep
    \/ AccountGenerateStep
    \/ AccountInsertStep
    \/ AccountUpdateStep
    \/ AccountSaveStep
    \/ CreateStep
    \/ LockStep
    \/ WriteBalanceStep
    \/ InsertCommitStep
    \/ FailStep

SpecAccount == InitEmpty /\ [][NextAccount]_vars

TransactionRequestStep ==
    \E caller \in UserIds, method \in Methods,
       query \in 0..(NumAccounts + 1), data \in 0..(NumAccounts + 1) :
        TransactionRequest(caller, method, query, data)

\* the permission check of the transaction endpoints, on any accounts
NextPermission == TransactionRequestStep

SpecPermission == InitPermission /\ [][NextPermission]_vars

TransactionListStep ==
    \E caller \in UserIds, account_id \in 0..(NumAccounts + 1) :
        TransactionList(caller, account_id)
AdminUserTransactionsStep ==
    \E user_id \in {NonNumericId} \cup UserIdInputs,
       start_date \in DateInputs, end_date \in DateInputs :
        AdminUserTransactions(user_id, start_date, end_date)

\* the read requests, on any stored transactions
NextRead ==
    \/ TransactionListStep
    \/ AdminUserTransactionsStep

SpecRead == InitRead /\ [][NextRead]_vars

CheckDetailStep ==
    /\ perm = NoPerm
    /\ \E r \in Requests, caller \in UserIds, method \in DetailMethods,
          query \in AccountIdInputs, data \in AccountIdInputs :
            CheckPermissions(r, "detail", caller, method, query, data)
TransactionDetailStep ==
    /\ Permitted("detail")
    /\ \E r \in Requests, id \in TxIds, m \in AmountInputs, ty \in TypeInputs,
          a \in AccountIdInputs \cup {Absent} :
            TransactionDetail(r, id, m, ty, a)

\* one request to the transaction-detail endpoint, on any stored transactions
NextDetail ==
    \/ CheckDetailStep
    \/ TransactionDetailStep
    \/ LazyCleanStep
    \/ LockStep
    \/ WriteBalanceStep
    \/ InsertCommitStep
    \/ FailStep

SpecDetail == InitDetail /\ [][NextDetail]_vars

CheckCreateStep ==
    /\ perm = NoPerm
    /\ \E r \in Requests, caller \in UserIds,
          query \in AccountIdInputs, data \in AccountIdInputs :
            CheckPermissions(r, "create", caller, "POST", query, data)
CreateTransactionStep ==
    /\ Permitted("create")
    /\ \E r \in Requests, m \in Amounts, ty \in TransactionTypes :
            CreateTransaction(r, m, ty)

\* one request to the transaction-create endpoint, on any accounts
NextPost ==
    \/ CheckCreateStep
    \/ CreateTransactionStep
    \/ LockStep
    \/ WriteBalanceStep
    \/ InsertCommitStep
    \/ FailStep

SpecPost == InitPermission /\ [][NextPost]_vars

\* generate_account_number on every pair of instances
NextNumber == Generate

SpecNumber == InitNumber /\ [][NextNumber]_vars

TypeOK ==
    /\ accounts \subseteq AccountIds
    /\ \A a \in AccountIds : lock[a] \in 0..NumRequests
    /\ \A t \in transactions : t.user_account \in accounts
    /\ nextTxId \in 1..(NumRequests + 1)
    /\ \A r \in Requests : req[r].pc \in
            {"idle", "lazy", "clean", "locked", "written", "loaded",
             "validated", "generated", "done"}

\* ------------------------------------------------------------ claims
TxOf(a) == {t \in transactions : t.user_account = a}

\* a request that is between its first step and its response
InFlight(r) == req[r].pc \notin {"idle", "done"}

\* request r gets its response in this step
Finishes(r) == req[r].pc # "done" /\ req'[r].pc = "done"

\* request r, a transaction create, takes a step
CreateSteps(r) ==
    /\ req'[r] # req[r]
    /\ \/ req[r].kind = "create"
       \/ req[r].pc = "idle" /\ req'[r].pc = "done" /\ resp'.kind = "create"
       \/ req[r].pc = "idle" /\ req'[r].kind = "create"

RECURSIVE SignedSum(_)
\* credits minus debits of a set of transaction rows
SignedSum(rows) ==
    IF rows = {} THEN 0
    ELSE LET t == CHOOSE x \in rows : TRUE
         IN (IF t.transaction_type = CREDIT THEN t.amount ELSE 0 - t.amount)
                + SignedSum(rows \ {t})

\* C1: on an account whose balance covers one debit of amount m but not two
\* (m <= balance < 2m), debit creates of m never commit twice: as long as
\* every transaction of the account is such a debit there is exactly one of
\* them and the balance is the initial balance minus m, never negative
C1_ExactlyOneDebitCommits ==
    \A a \in AccountIds, m \in 1..MaxAmount :
        ( /\ m <= InitBalance
          /\ InitBalance < 2 * m
          /\ TxOf(a) # {}
          /\ \A t \in TxOf(a) : t.transaction_type = DEBIT /\ t.amount = m )
        => /\ Cardinality(TxOf(a)) = 1
           /\ balance[a] = InitBalance - m
           /\ balance[a] >= 0

\* C2: the persisted balance of every account is never negative
C2_BalanceNonNegative == \A a \in accounts : balance[a] >= 0

\* C3: a step of a transaction-create request that does not commit it, and
\* so every step of a create that ends in an error, changes no balance and
\* no stored transaction
C3_FailedCreateChangesNothing ==
    [][\A r \in Requests :
        (CreateSteps(r) /\ ~(Finishes(r) /\ resp'.outcome = "created"))
            => /\ balance' = balance
               /\ transactions' = transactions
               /\ accounts' = accounts]_vars

C3_Witness ==
    /\ resp = [kind |-> "create", outcome |-> "insufficient_funds"]
    /\ transactions # {}

\* C4: while a create holds the account row (between its lock and the end of
\* its atomic block) the account's visible balance changes in a step exactly
\* when the create's transaction row appears in that step: the balance write
\* is never visible without the row, nor the row without the balance write,
\* also when the block fails between the two writes
C4_BalanceAndRowTogether ==
    [][\A r \in Requests :
        (req[r].kind = "create" /\ req[r].pc \in {"locked", "written"})
            => LET a == req[r].account
                   row == TxRow(nextTxId, a, req[r].amount, req[r].ttype)
               IN /\ (balance'[a] # balance[a]) <=> (row \in transactions' \ transactions)
                  /\ (Finishes(r) /\ resp'.outcome = "created")
                        <=> (row \in transactions' \ transactions)]_vars

C4_Witness ==
    \E r \in Requests :
        /\ req[r].kind = "create"
        /\ req[r].pc = "written"
        /\ req[r].pending # balance[req[r].account]
        /\ lock[req[r].account] = r

\* C5: with transaction creates as the only operations, whenever no create
\* is in progress every account's balance is its initial balance plus its
\* committed credits minus its committed debits
C5_BalanceIsSumOfCommitted ==
    NoneInFlight =>
        \A a \in AccountIds : balance[a] = InitBalance + SignedSum(TxOf(a))

C5_Witness ==
    /\ NoneInFlight
    /\ \E a \in AccountIds :
        /\ \E t \in TxOf(a) : t.transaction_type = CREDIT
        /\ \E t \in TxOf(a) : t.transaction_type = DEBIT

\* C6: the step that commits a create of amount m on account a sets a's
\* balance to the persisted balance plus m (credit) or minus m (debit),
\* stores exactly one new transaction carrying a, m and the type, and leaves
\* every other balance and transaction as it was
C6_CommitEffect ==
    [][\A r \in Requests :
        (req[r].kind = "create" /\ Finishes(r) /\ resp'.outcome = "created")
            => LET a == req[r].account
                   m == req[r].amount
                   row == TxRow(nextTxId, a, m, req[r].ttype)
               IN /\ req[r].ttype = CREDIT => balance'[a] = balance[a] + m
                  /\ req[r].ttype = DEBIT => balance'[a] = balance[a] - m
                  /\ \A b \in AccountIds \ {a} : balance'[b] = balance[b]
                  /\ row \notin transactions
                  /\ transactions' = transactions \cup {row}
                  /\ \A t \in transactions : t.id # row.id]_vars

C6_Witness ==
    /\ resp = [kind |-> "create", outcome |-> "created"]
    /\ \E a \in accounts :
        /\ transactions = {TxRow(1, a, MaxAmount, CREDIT)}
        /\ balance[a] = InitBalance + MaxAmount

\* C7: with one request at a time, a debit create whose amount is greater
\* than the balance is answered with the insufficient-funds error and
\* changes nothing; one whose amount equals the balance passes validation,
\* and no debit that passed validation is rejected afterwards
C7_DebitAgainstBalance ==
    [][\A r \in Requests :
        /\ (NextSlot(r) /\ req'[r] # req[r]) =>
            \A a \in accounts, m \in 0..MaxAmount :
                CreateBegin(r, a, m, DEBIT) =>
                    /\ m > balance[a] =>
                        /\ resp' = [kind |-> "create", outcome |-> "insufficient_funds"]
                        /\ balance' = balance
                        /\ transactions' = transactions
                    /\ (m = balance[a] /\ m > 0) => req'[r].pc = "clean"
        /\ (req[r].kind = "create" /\ req[r].ttype = DEBIT /\ Finishes(r))
                => resp'.outcome \in {"created", "aborted"}]_vars

C7_Witness ==
    /\ resp = [kind |-> "create", outcome |-> "insufficient_funds"]
    /\ \E a \in accounts :
        /\ TxOf(a) = {TxRow(1, a, MaxAmount, DEBIT)}
        /\ balance[a] = InitBalance - MaxAmount
        /\ balance[a] < MaxAmount

\* C8: every stored transaction has a positive amount
C8_StoredAmountPositive == \A t \in transactions : t.amount > 0

C8_Witness ==
    /\ resp = [kind |-> "update", outcome |-> "updated"]
    /\ transactions # {}

\* C9: a create whose amount is zero or negative, on an existing account, is
\* answered with the invalid-amount validation error, the same for 0 as for
\* a negative amount, without taking the lock or writing anything
C9_NonPositiveAmountRejected ==
    [][\A r \in Requests :
        (NextSlot(r) /\ req'[r] # req[r]) =>
            \A a \in accounts, m \in Amounts, ty \in TransactionTypes :
                (CreateBegin(r, a, m, ty) /\ m <= 0
                        /\ ~InsufficientFunds(ty, balance[a], m))
                    => /\ resp' = [kind |-> "create", outcome |-> "invalid_amount"]
                       /\ UNCHANGED <<balance, transactions, lock>>]_vars

\* C10: a credit create with a positive amount on an existing account is
\* accepted: it passes validation and, once it holds the account row, it is
\* never answered with an error
C10_CreditAlwaysAccepted ==
    [][\A r \in Requests :
        /\ (NextSlot(r) /\ req'[r] # req[r]) =>
            \A a \in accounts, m \in 1..MaxAmount :
                CreateBegin(r, a, m, CREDIT) => req'[r].pc = "clean"
        /\ (req[r].kind = "create" /\ req[r].ttype = CREDIT
                /\ req[r].pc = "locked" /\ Finishes(r))
                => resp'.outcome = "aborted"]_vars

\* C11: an account create whose (user, account_type) pair has an account by
\* the time the request ends, ends with the duplicate validation error and
\* creates nothing, whoever the caller is
C11_DuplicateGetsDuplicateError ==
    [][\A r \in Requests :
        (req[r].kind = "account_create" /\ Finishes(r)
                /\ NumbersOf(req[r].user, req[r].account_type) # {})
            => /\ resp'.outcome \in {"duplicate", "unique_together"}
               /\ accounts' = accounts]_vars

\* C12: two instances whose (user id, account type id) pairs differ never
\* get the same account number in the same year
C12_NumbersOfDifferentPairsDiffer ==
    (gen # NoGen /\ gen.called /\ gen.last = 0
        /\ <<gen.user, gen.account_type>>
                # <<gen.other_user, gen.other_account_type>>)
    => gen.number # gen.other_number

\* C13: the generated number is the digits of the user id, of the account
\* type id and of the year followed by a sequence number of four digits,
\* zeros on the left, that is 1 for the first account of the pair and one
\* more than the highest existing one otherwise: 7320240001 for the first
\* account of user 7 and type 3 in 2024, ...0002 for a second one
C13_AccountNumberFormat ==
    (gen # NoGen /\ gen.called) =>
        LET n == gen.number
            prefix == Len(Digits(gen.user)) + Len(Digits(gen.account_type))
        IN /\ Len(n) = prefix + 8
           /\ SubSeq(n, 1, prefix) = Digits(gen.user) \o Digits(gen.account_type)
           /\ SubSeq(n, prefix + 1, prefix + 4) = <<2, 0, 2, 4>>
           /\ ToInt(SubSeq(n, prefix + 5, prefix + 8)) = gen.last + 1
           /\ (gen.user = 7 /\ gen.account_type = 3 /\ gen.last = 0)
                => n = <<7, 3, 2, 0, 2, 4, 0, 0, 0, 1>>
           /\ (gen.user = 7 /\ gen.account_type = 3 /\ gen.last = 1)
                => n = <<7, 3, 2, 0, 2, 4, 0, 0, 0, 2>>

C13_Witness ==
    /\ gen # NoGen
    /\ gen.called
    /\ gen.user = 7
    /\ gen.account_type = 3
    /\ gen.last = 1
    /\ gen.number = <<7, 3, 2, 0, 2, 4, 0, 0, 0, 2>>

\* C14: every stored transaction references an existing account in every
\* reachable state, and the step that deletes an account removes every
\* transaction of it and no other transaction
C14_DeleteCascades ==
    /\ [](\A t \in transactions : t.user_account \in accounts)
    /\ [][\A a \in AccountIds :
            (a \in accounts /\ a \notin accounts')
                => transactions' = {t \in transactions : t.user_account # a}]_vars

C14_Witness ==
    /\ resp = [kind |-> "account_delete", outcome |-> "deleted"]
    /\ nextTxId > 1
    /\ transactions = {}
    /\ accounts # AccountIds

\* C15: the persisted balance of an account changes only in the step that
\* commits a transaction create on that account
C15_BalanceChangedOnlyByCreate ==
    [][\A a \in accounts' :
        balance'[a] # balance[a]
            => \E r \in Requests :
                /\ req[r].kind = "create"
                /\ req[r].account = a
                /\ Finishes(r)
                /\ resp'.outcome = "created"]_vars

\* the permission level of account a
LevelOf(a) == permission_level[account_type[a]]

\* C16: a transaction request that names an account of the caller is
\* allowed exactly when the account is view_only and the method is GET, or
\* the account is post_only and the method is POST, or the account is
\* full_access
C16_PermissionByTier ==
    [][(perm' # perm /\ perm'.account_id \in accounts
            /\ user[perm'.account_id] = perm'.caller)
        => LET level == LevelOf(perm'.account_id)
           IN /\ perm'.allowed <=>
                    \/ level = VIEW_ONLY /\ perm'.method = "GET"
                    \/ level = POST_ONLY /\ perm'.method = "POST"
                    \/ level = FULL_ACCESS
              /\ (resp'.outcome = "permitted") <=> perm'.allowed]_vars

C16_Witness ==
    /\ perm.checked
    /\ perm.account_id \in accounts
    /\ user[perm.account_id] = perm.caller
    /\ LevelOf(perm.account_id) = POST_ONLY
    /\ perm.method = "DELETE"
    /\ resp = [kind |-> "transaction_request", outcome |-> "forbidden"]

\* C17: a transaction request that names no account, or an account that is
\* not the caller's, is answered 403 and nothing stored is touched
C17_ForeignAccountDenied ==
    [][(perm' # perm /\ \/ perm'.account_id = 0
                        \/ perm'.account_id \notin accounts
                        \/ user[perm'.account_id] # perm'.caller)
        => /\ ~perm'.allowed
           /\ resp' = [kind |-> "transaction_request", outcome |-> "forbidden"]
           /\ UNCHANGED <<ledger, directory, created_at>>]_vars

C17_Witness ==
    /\ perm.checked
    /\ perm.account_id \in accounts
    /\ user[perm.account_id] # perm.caller
    /\ LevelOf(perm.account_id) = FULL_ACCESS
    /\ resp = [kind |-> "transaction_request", outcome |-> "forbidden"]

RECURSIVE SumOfAmounts(_)
\* the sum of the raw amounts of a set of transaction rows
SumOfAmounts(rows) ==
    IF rows = {} THEN 0
    ELSE LET t == CHOOSE x \in rows : TRUE
         IN t.amount + SumOfAmounts(rows \ {t})

\* the ids of a sequence of rows, and whether it lists newest first
Listed(rows) == {rows[i] : i \in DOMAIN rows}
NewestFirst(rows) ==
    /\ \A i, j \in DOMAIN rows : i # j => rows[i] # rows[j]
    /\ \A i, j \in DOMAIN rows : i < j => created_at[rows[i]] >= created_at[rows[j]]

\* C18: a listing of an account returns exactly the transactions of that
\* account, newest first, and a listing that follows another listing of the
\* same account by the same caller returns the same sequence
C18_ListingIsRepeatable ==
    [][(body'.kind = "list" /\ resp'.outcome = "ok")
        => /\ Listed(body'.rows) = {t.id : t \in TxOf(body'.account_id)}
           /\ NewestFirst(body'.rows)
           /\ (body.kind = "list" /\ resp.outcome = "ok"
                    /\ body.account_id = body'.account_id
                    /\ body.caller = body'.caller)
                => body'.rows = body.rows]_vars

\* C19: an accepted report lists, newest first, exactly the transactions of
\* the accounts of the given user created from the first instant of
\* start_date to the last instant of end_date, and its total_balance is the
\* sum of their amounts, debits added, 0 when there is none
C19_ReportRangeAndTotal ==
    [][(body' # body /\ body'.kind = "report" /\ resp'.outcome = "ok")
        => LET matched == {t \in transactions :
                    /\ t.user_account \in accounts
                    /\ user[t.user_account] = body'.user_id
                    /\ created_at[t.id] >= DayStart(body'.start_date)
                    /\ created_at[t.id] <= DayEnd(body'.end_date)}
           IN /\ Listed(body'.rows) = {t.id : t \in matched}
              /\ NewestFirst(body'.rows)
              /\ body'.total_balance = SumOfAmounts(matched)
              /\ matched = {} => body'.total_balance = 0]_vars

C19_Witness ==
    /\ body.kind = "report"
    /\ resp = [kind |-> "report", outcome |-> "ok"]
    /\ body.start_date < body.end_date
    /\ Len(body.rows) = 2
    /\ created_at[body.rows[1]] = DayEnd(body.end_date)
    /\ created_at[body.rows[2]] = DayStart(body.start_date)
    /\ \E t1, t2 \in transactions :
        /\ t1.transaction_type = CREDIT
        /\ t2.transaction_type = DEBIT
        /\ Listed(body.rows) = {t1.id, t2.id}
        /\ t1.user_account # t2.user_account
        /\ body.total_balance = t1.amount + t2.amount
    /\ Cardinality(transactions) = 2

C21_DebitCheckedUnderLock ==
    [][\A r \in Requests :
        (req[r].kind = "create" /\ req[r].ttype = DEBIT
                /\ Finishes(r) /\ resp'.outcome = "created")
            => req[r].amount <= balance[req[r].account]]_vars

\* C22: the step that commits an update of a stored transaction (PUT or
\* PATCH) changes no balance
C22_UpdateLeavesBalance ==
    [][\A r \in Requests :
        (req[r].kind = "update" /\ Finishes(r) /\ resp'.outcome = "updated")
            => balance' = balance]_vars

\* C23: with one request at a time, an update (PUT or PATCH) of a stored
\* transaction that makes it a debit with an amount greater than the balance
\* of its account is not rejected: it passes validation and it ends committed
C23_OverdrawingUpdateCommitted ==
    [][\A r \in Requests :
        /\ (NextSlot(r) /\ req'[r] # req[r]) =>
            \A id \in StoredIds, m \in Amounts \cup {Absent},
               ty \in TransactionTypes \cup {AbsentType},
               a \in accounts \cup {Absent} :
                LET old == CHOOSE t \in transactions : t.id = id
                    set == UpdatedInstance(old, m, ty, a)
                IN (UpdateBegin(r, id, m, ty, a)
                        /\ set.ttype = DEBIT
                        /\ set.account \in accounts
                        /\ set.amount > balance[set.account])
                    => req'[r].pc # "done"
        /\ (req[r].kind = "update" /\ req[r].ttype = DEBIT
                /\ req[r].account \in accounts
                /\ req[r].amount > balance[req[r].account]
                /\ Finishes(r))
            => resp'.outcome \in {"updated", "aborted"}]_vars

\* C24: the step that deletes a stored transaction removes that one row and
\* nothing else: every balance, every account and every other transaction
\* stay as they were, so the balance keeps the effect of the deleted row
C24_DeleteRemovesOneRow ==
    [][(resp'.kind = "delete" /\ resp'.outcome = "deleted"
            /\ \E r \in Requests : Finishes(r))
        => /\ \E t \in transactions : transactions' = transactions \ {t}
           /\ Cardinality(transactions') = Cardinality(transactions) - 1
           /\ balance' = balance
           /\ accounts' = accounts
           /\ UNCHANGED <<directory, created_at, lock>>]_vars

C24_Witness ==
    /\ resp = [kind |-> "delete", outcome |-> "deleted"]
    /\ \E a \in accounts : \E t \in TxOf(a) :
        /\ t.id = 1
        /\ nextTxId = 3
        /\ transactions = {t}
        /\ balance[a] = InitBalance

\* request r is a create between its lock and the end of its atomic block
InSection(r) == req[r].kind = "create" /\ req[r].pc \in {"locked", "written"}

\* C25: a create that is about to lock account A can take the lock whenever
\* no request holds the row of A, whatever is locked on other accounts; and
\* no two creates are between lock and commit on the same account at once
C25_LockIsPerAccount ==
    /\ \A r \in Requests :
        (req[r].kind = "create" /\ req[r].pc = "clean"
                /\ \A r2 \in Requests \ {r} :
                        InSection(r2) => req[r2].account # req[r].account)
            => ENABLED (Lock(r) /\ UNCHANGED created_at /\ LedgerFrame)
    /\ \A r1, r2 \in Requests :
        (r1 # r2 /\ InSection(r1) /\ InSection(r2))
            => req[r1].account # req[r2].account

C25_Witness ==
    \E r1, r2 \in Requests :
        /\ req[r1].kind = "create"
        /\ req[r1].pc = "clean"
        /\ InSection(r2)
        /\ req[r2].account # req[r1].account
        /\ lock[req[r2].account] = r2

\* the row locks request r holds
HeldBy(r) == {a \in AccountIds : lock[a] = r}

\* C26: with concurrent creates, a request holds at most one row lock and
\* holds none while it waits for one; and whenever a request is in progress,
\* some request in progress can take its next step (lock, balance write or
\* commit) without anything failing
C26_NoDeadlock ==
    /\ \A r \in Requests :
        /\ Cardinality(HeldBy(r)) <= 1
        /\ req[r].pc = "clean" => HeldBy(r) = {}
        /\ InSection(r) => HeldBy(r) = {req[r].account}
    /\ (\E r \in Requests : InFlight(r))
        => ENABLED (LockStep \/ WriteBalanceStep \/ InsertCommitStep)

C26_Witness ==
    \E r1, r2 \in Requests :
        /\ req[r1].kind = "create"
        /\ req[r1].pc = "clean"
        /\ InSection(r2)
        /\ req[r2].account = req[r1].account
        /\ ~ENABLED (Lock(r1) /\ UNCHANGED created_at /\ LedgerFrame)

\* C27: a row lock is held only by a create between its lock and the end of
\* its atomic block, and the step that ends the block, by commit, error or
\* rollback, releases it; a create that waits for the lock leaves the wait
\* only by acquiring it; and, every request being served, every create that
\* was started ends with its response: from some point on none is waiting
\* or in progress
C27_LockReleasedAndCreatesEnd ==
    /\ [](\A a \in AccountIds :
            lock[a] # 0 => InSection(lock[a]) /\ req[lock[a]].account = a)
    /\ [][\A r \in Requests :
            /\ (InSection(r) /\ Finishes(r))
                => /\ lock'[req[r].account] = 0
                   /\ resp'.outcome \in {"created", "server_error", "aborted"}
            /\ (req[r].kind = "create" /\ req[r].pc = "clean" /\ req'[r] # req[r])
                => /\ req'[r].pc = "locked"
                   /\ lock'[req[r].account] = r]_vars
    /\ <>[]NoneInFlight

C27_Witness ==
    /\ NoneInFlight
    /\ \A r \in Requests : req[r].pc = "done"
    /\ \A a \in AccountIds : lock[a] = 0
    /\ resp = [kind |-> "create", outcome |-> "aborted"]
    /\ Cardinality(transactions) = NumRequests - 1

\* C28: every account has a number; the step that stores a new account
\* gives it the number its save generated; and no step changes the number
\* of a stored account: not an account update, not a transaction create
C28_AccountNumberAssignedOnce ==
    /\ [](\A a \in accounts : account_number[a] # <<>>)
    /\ [][\A a \in AccountIds :
            /\ a \in accounts => account_number'[a] = account_number[a]
            /\ (a \notin accounts /\ a \in accounts')
                => \E r \in Requests :
                    /\ req[r].kind = "account_create"
                    /\ Finishes(r)
                    /\ account_number'[a] = req[r].number
                    /\ req[r].number = generate_account_number(req[r].user,
                            req[r].account_type, Year, {})]_vars

C28_Witness ==
    /\ resp = [kind |-> "account_update", outcome |-> "updated"]
    /\ \E a \in accounts :
        /\ balance[a] = BalanceCap
        /\ account_number[a] =
                generate_account_number(user[a], account_type[a], Year, {})

\* C29: a step of a transaction-create request changes the balance or the
\* transactions of an account only if that account is the one the request's
\* permission check was made on, an account of the caller
C29_CreateMutatesCheckedAccountOnly ==
    [][\A a \in AccountIds :
        (\/ balance'[a] # balance[a]
         \/ {t \in transactions' : t.user_account = a} # TxOf(a))
        => /\ perm # NoPerm
           /\ perm.allowed
           /\ perm.account_id = a
           /\ user[a] = perm.caller]_vars

\* C30: a request to the transaction-detail endpoint returns, changes or
\* deletes a transaction only if the transaction belongs to the account the
\* request's permission check was made on, an account of the caller; and an
\* update leaves the transaction on its account
C30_DetailOnCheckedAccountOnly ==
    [][/\ (body' # body /\ body'.kind = "retrieve")
            => /\ body'.row.user_account = perm.account_id
               /\ user[body'.row.user_account] = perm.caller
       /\ \A t \in transactions :
            /\ t \notin transactions'
                => /\ perm # NoPerm
                   /\ perm.allowed
                   /\ t.user_account = perm.account_id
                   /\ user[t.user_account] = perm.caller
            /\ \A t2 \in transactions' :
                t2.id = t.id => t2.user_account = t.user_account]_vars

====
